---- MODULE Spec2Model ----
(***************************************************************************)
(* A model of the easykey Python package (easykey/__init__.py): the binary *)
(* locator and the command client that drives the external easykey CLI as  *)
(* a subprocess and translates its output.                                 *)
(*                                                                         *)
(* A Python str is modelled as a sequence of atoms.  An atom is a single   *)
(* character (" ", "\n", ":", "-", a digit, ...) or a word that the code   *)
(* only ever treats as a whole ("Removed", "secrets", "--reason").         *)
(* Concatenation of strings is concatenation of sequences.                 *)
(***************************************************************************)
EXTENDS Integers, Sequences, FiniteSets, TLC

VARIABLES
    fs,          \* what the filesystem answers to the locator's probes
    vault,       \* the external tool's store: name -> value
    pc,          \* position of the (single, synchronous) call
    op,          \* the public function being executed
    name,        \* its arguments
    value,
    reason,
    confirm,
    include_timestamps,
    args,        \* argument vector handed to the binary (after binary_path)
    binary_path, \* result of _find_easykey_binary
    located,     \* has this call run _find_easykey_binary ?
    child,       \* the child process and its pipes
    rc,          \* captured exit status, stdout and stderr
    stdout,
    stderr,
    outcome,     \* what the call returns or raises
    lastSet      \* history: the name and value of the latest successful
                 \* set_secret that no later remove or cleanup has undone

vars == <<fs, vault, pc, op, name, value, reason, confirm, include_timestamps,
          args, binary_path, located, child, rc, stdout, stderr, outcome,
          lastSet>>

-----------------------------------------------------------------------------
(* Bounds of the model *)

MaxValueLen == 2      \* longest secret value, in atoms
MaxStatusLines == 2   \* most lines of a status stdout
MaxJsonLen == 4       \* longest list stdout, in atoms
MaxCleanupSegs == 5   \* most segments of a cleanup stdout

-----------------------------------------------------------------------------
(* Python str primitives *)

WS == {" ", "\n", "\t"}
Digits == {"0", "1", "2", "3", "4", "5", "6", "7", "8", "9"}
DigitVal(c) == CASE c = "0" -> 0 [] c = "1" -> 1 [] c = "2" -> 2 [] c = "3" -> 3
                 [] c = "4" -> 4 [] c = "5" -> 5 [] c = "6" -> 6 [] c = "7" -> 7
                 [] c = "8" -> 8 [] c = "9" -> 9

RECURSIVE LStrip(_)
LStrip(s) == IF s # <<>> /\ Head(s) \in WS THEN LStrip(Tail(s)) ELSE s

RECURSIVE RStrip(_)
RStrip(s) == IF s # <<>> /\ s[Len(s)] \in WS
             THEN RStrip(SubSeq(s, 1, Len(s) - 1)) ELSE s

\* str.strip()
Strip(s) == RStrip(LStrip(s))

\* sub in s
Contains(s, sub) ==
    \E i \in 1..(Len(s) - Len(sub) + 1) : SubSeq(s, i, i + Len(sub) - 1) = sub

\* index of the first occurrence of atom c in s (0: none)
FirstIndex(s, c) ==
    IF \E i \in 1..Len(s) : s[i] = c
    THEN CHOOSE i \in 1..Len(s) : s[i] = c /\ \A j \in 1..(i - 1) : s[j] # c
    ELSE 0

\* s.split(c) for a single-character separator c
RECURSIVE SplitOn(_, _)
SplitOn(s, c) ==
    LET i == FirstIndex(s, c)
    IN  IF i = 0 THEN <<s>>
        ELSE <<SubSeq(s, 1, i - 1)>> \o SplitOn(SubSeq(s, i + 1, Len(s)), c)

\* s.split(c, 1)
SplitMax1(s, c) ==
    LET i == FirstIndex(s, c)
    IN  IF i = 0 THEN <<s>>
        ELSE <<SubSeq(s, 1, i - 1), SubSeq(s, i + 1, Len(s))>>

\* the longest prefix of s holding no whitespace
RECURSIVE WordPrefix(_)
WordPrefix(s) == IF s = <<>> \/ Head(s) \in WS THEN <<>>
                 ELSE <<Head(s)>> \o WordPrefix(Tail(s))

\* s.split(): the whitespace-separated tokens
RECURSIVE SplitWS(_)
SplitWS(s) ==
    LET t == LStrip(s)
        w == WordPrefix(t)
    IN  IF t = <<>> THEN <<>>
        ELSE <<w>> \o SplitWS(SubSeq(t, Len(w) + 1, Len(t)))

RECURSIVE DigitsValue(_, _)
DigitsValue(s, acc) == IF s = <<>> THEN acc
                       ELSE DigitsValue(Tail(s), 10 * acc + DigitVal(Head(s)))

\* int(s): surrounding whitespace is ignored, an optional sign, then digits.
\* ok = FALSE stands for ValueError.
IntParse(s) ==
    LET t == Strip(s)
        signed == t # <<>> /\ Head(t) \in {"+", "-"}
        d == IF signed THEN Tail(t) ELSE t
    IN  IF d # <<>> /\ \A i \in 1..Len(d) : d[i] \in Digits
        THEN [ok |-> TRUE,
              v |-> IF signed /\ Head(t) = "-" THEN 0 - DigitsValue(d, 0)
                    ELSE DigitsValue(d, 0)]
        ELSE [ok |-> FALSE, v |-> 0]

RECURSIVE Join(_, _)
Join(parts, sep) == IF parts = <<>> THEN <<>>
                    ELSE IF Len(parts) = 1 THEN parts[1]
                    ELSE parts[1] \o sep \o Join(Tail(parts), sep)

\* all sequences over S of length at most n
SeqsUpTo(S, n) == UNION {[1..k -> S] : k \in 0..n}

-----------------------------------------------------------------------------
(* Values a call returns, and the exceptions it raises *)

NONE == "<None>"          \* None, where the code holds an exception or a path
PyNone == <<"<None>">>    \* None, where the code holds a str

RetNone == [t |-> "None"]
RetStr(s) == [t |-> "str", s |-> s]
RetInt(n) == [t |-> "int", i |-> n]
RetDict(d) == [t |-> "dict", d |-> d]
RetJson(j) == [t |-> "json", j |-> j]

NoOutcome == [kind |-> "none", exc |-> NONE, prefix |-> "", text |-> <<>>,
              val |-> RetNone]
Returns(v) == [kind |-> "return", exc |-> NONE, prefix |-> "", text |-> <<>>,
              val |-> v]
Raises(e, p, t) == [kind |-> "raise", exc |-> e, prefix |-> p, text |-> t,
                   val |-> RetNone]

\* `if x:` for an Optional[str]
Truthy(s) == s # PyNone /\ s # <<>>

\* message texts of the package
MSG_NOT_INSTALLED == "easykey binary not found. Please ensure easykey is installed and available in PATH, or install it to one of the standard locations: /usr/local/bin, /opt/homebrew/bin, or ~/bin"
PFX_BINARY_NOT_FOUND == "easykey binary not found: "
PFX_COMMAND_FAILED == "easykey command failed: "
PFX_PARSE_FAILED == "Failed to parse easykey output: "
PFX_CLEANUP_FAILED == "Cleanup failed: "
MSG_CONFIRM == "cleanup_vault is a destructive operation that removes ALL secrets. You must pass confirm=True to proceed."
UNKNOWN_ERROR == <<"Unknown error">>
\* str(e) of a CalledProcessError, of a FileNotFoundError, of a JSONDecodeError
STR_CALLED_PROCESS_ERROR == <<"Command returned non-zero exit status">>
STR_FILE_NOT_FOUND == <<"[Errno 2] No such file or directory">>
STR_JSON_DECODE_ERROR == <<"JSONDecodeError">>
STR_INT_ERROR == <<"invalid literal for int() with base 10">>
STR_OS_ERROR == <<"OSError">>

-----------------------------------------------------------------------------
(* Binary Locator *)

common_paths == << "/usr/local/bin/easykey",
                   "/opt/homebrew/bin/easykey",
                   "~/bin/easykey",
                   "<package>/../../bin/easykey" >>

\* Usable without the os.access test
UsableIfFile(f, i) == i \in f.isfile

\* os.path.isfile(path) and os.access(path, os.X_OK), path = common_paths[i]
Usable(f, i) == i \in f.isfile /\ i \in f.xok

\* _find_easykey_binary: the path, or NONE for the EasyKeyError it raises
FindEasykeyBinary(f) ==
    IF f.which # NONE THEN f.which
    ELSE IF \E i \in DOMAIN common_paths : Usable(f, i)
         THEN common_paths[CHOOSE i \in DOMAIN common_paths :
                  Usable(f, i) /\ \A j \in 1..(i - 1) : ~Usable(f, j)]
         ELSE NONE

-----------------------------------------------------------------------------
(* Command Client: argument vectors *)

\* ReasonArgs with `if reason is not None:` in place of `if reason:`
ReasonArgsIfNotNone(r) == IF r # PyNone THEN << <<"--reason">>, r >> ELSE <<>>

ReasonArgs(r) == IF Truthy(r) THEN << <<"--reason">>, r >> ELSE <<>>

SecretArgs(n, r) == << <<"get">>, n, <<"--quiet">> >> \o ReasonArgs(r)
SetSecretArgs(n, v, r) == << <<"set">>, n, v >> \o ReasonArgs(r)
RemoveSecretArgs(n, r) == << <<"remove">>, n >> \o ReasonArgs(r)
ListSecretsArgs(ts) == << <<"list">>, <<"--json">> >>
                           \o (IF ts THEN << <<"--verbose">> >> ELSE <<>>)
StatusArgs == << <<"status">> >>
CleanupArgs == << <<"cleanup">> >>

-----------------------------------------------------------------------------
(* Command Client: translation of a finished subprocess *)

\* _run_easykey_command after subprocess.run: CalledProcessError on a
\* non-zero exit, else stdout.strip()
\* RunErrorText without the .strip()
RunErrorTextUnstripped(err) == IF err # <<>> THEN err ELSE STR_CALLED_PROCESS_ERROR

RunErrorText(err) == IF err # <<>> THEN Strip(err) ELSE STR_CALLED_PROCESS_ERROR

\* RunOutput without the .strip()
RunOutputUnstripped(out) == out

RunOutput(out) == Strip(out)

RunFailed(code) == code # 0

\* secret(): the output is the value
SecretParse(output) == Returns(RetStr(output))

\* set_secret(), remove_secret(): the output is dropped
VoidParse(output) == Returns(RetNone)

(* json.loads on the texts the alphabet "[", "]", "{", "}", ",", digits and
   whitespace can spell: numbers, arrays, and the empty object. *)
JInt(n) == [t |-> "int", i |-> n, items |-> <<>>]
JList(xs) == [t |-> "list", i |-> 0, items |-> xs]
JObject == [t |-> "dict", i |-> 0, items |-> <<>>]
JFail == [ok |-> FALSE, val |-> JInt(0), rest |-> <<>>]
JOk(v, r) == [ok |-> TRUE, val |-> v, rest |-> r]

RECURSIVE DigitPrefix(_)
DigitPrefix(s) == IF s = <<>> \/ Head(s) \notin Digits THEN <<>>
                  ELSE <<Head(s)>> \o DigitPrefix(Tail(s))

RECURSIVE JsonValue(_)
RECURSIVE JsonElements(_, _)
JsonValue(s) ==
    IF s = <<>> THEN JFail
    ELSE IF Head(s) \in Digits
    THEN LET d == DigitPrefix(s)
         IN  IF Head(d) = "0" /\ Len(d) > 1
             THEN JOk(JInt(0), Tail(s))        \* a leading zero ends the number
             ELSE JOk(JInt(DigitsValue(d, 0)), SubSeq(s, Len(d) + 1, Len(s)))
    ELSE IF Head(s) = "{"
    THEN LET t == LStrip(Tail(s))
         IN  IF t # <<>> /\ Head(t) = "}" THEN JOk(JObject, Tail(t)) ELSE JFail
    ELSE IF Head(s) = "["
    THEN LET t == LStrip(Tail(s))
         IN  IF t # <<>> /\ Head(t) = "]" THEN JOk(JList(<<>>), Tail(t))
             ELSE JsonElements(t, <<>>)
    ELSE JFail
JsonElements(s, acc) ==
    LET r == JsonValue(s)
        t == LStrip(r.rest)
    IN  IF ~r.ok \/ t = <<>> THEN JFail
        ELSE IF Head(t) = "]" THEN JOk(JList(Append(acc, r.val)), Tail(t))
        ELSE IF Head(t) = ","
             THEN JsonElements(LStrip(Tail(t)), Append(acc, r.val))
        ELSE JFail

\* json.loads(s): ok = FALSE stands for JSONDecodeError
JsonLoads(s) ==
    LET r == JsonValue(LStrip(s))
    IN  IF r.ok /\ LStrip(r.rest) = <<>> THEN r ELSE JFail

\* list_secrets() after _run_easykey_command
ListParse(output) ==
    IF output = <<>> THEN Returns(RetJson(JList(<<>>)))
    ELSE LET r == JsonLoads(output)
         IN  IF r.ok THEN Returns(RetJson(r.val))
             ELSE Raises("EasyKeyError", PFX_PARSE_FAILED, STR_JSON_DECODE_ERROR)

\* values of the status dict
VInt(n) == [t |-> "int", i |-> n, s |-> <<>>]
VStr(x) == [t |-> "str", i |-> 0, s |-> x]
VNone == [t |-> "None", i |-> 0, s |-> <<>>]

\* result[key] = v
DictSet(d, key, v) ==
    [k \in DOMAIN d \cup {key} |-> IF k = key THEN v ELSE d[k]]

EmptyDict == [k \in {} |-> VNone]

SECRETS == <<"secrets">>
LAST_ACCESS == <<"last_access">>

\* StatusSplit with rsplit: the last colon instead of the first
StatusSplitLast(line) ==
    LET i == CHOOSE k \in 0..Len(line) :
                 /\ (k > 0 => line[k] = ":")
                 /\ \A j \in (k + 1)..Len(line) : line[j] # ":"
    IN  IF i = 0 THEN <<line>>
        ELSE <<SubSeq(line, 1, i - 1), SubSeq(line, i + 1, Len(line))>>

\* line.split(':', 1), the first colon
StatusSplit(line) == SplitMax1(line, ":")

\* the body of status()'s loop for one line holding a colon
StatusEntry(d, line) ==
    LET kv == StatusSplit(line)
        key == Strip(kv[1])
        val == Strip(kv[2])
    IN  IF key = SECRETS
        THEN IF IntParse(val).ok
             THEN [ok |-> TRUE, d |-> DictSet(d, key, VInt(IntParse(val).v))]
             ELSE [ok |-> FALSE, d |-> d]
        ELSE IF key = LAST_ACCESS
        THEN [ok |-> TRUE,
              d |-> DictSet(d, key, IF val # <<"-">> THEN VStr(val) ELSE VNone)]
        ELSE [ok |-> TRUE, d |-> DictSet(d, key, VStr(val))]

RECURSIVE StatusLoop(_, _)
StatusLoop(lines, d) ==
    IF lines = <<>> THEN [ok |-> TRUE, d |-> d]
    ELSE IF Contains(Head(lines), <<":">>)
    THEN LET e == StatusEntry(d, Head(lines))
         IN  IF e.ok THEN StatusLoop(Tail(lines), e.d) ELSE e
    ELSE StatusLoop(Tail(lines), d)

\* status() after _run_easykey_command; int() raises ValueError, uncaught
StatusParse(output) ==
    LET r == StatusLoop(SplitOn(output, "\n"), EmptyDict)
    IN  IF r.ok THEN Returns(RetDict(r.d))
        ELSE Raises("ValueError", "", STR_INT_ERROR)

REMOVED == <<"Removed">>

\* the inner loop of cleanup_vault over the tokens of one line, from token i:
\* the count, or "next" for a line that yields none (ValueError included)
RECURSIVE RemovedScan(_, _)
RemovedScan(parts, i) ==
    IF i > Len(parts) THEN [found |-> FALSE, n |-> 0]
    ELSE IF parts[i] = REMOVED /\ i + 1 <= Len(parts)
    THEN IF IntParse(parts[i + 1]).ok
         THEN [found |-> TRUE, n |-> IntParse(parts[i + 1]).v]
         ELSE [found |-> FALSE, n |-> 0]
    ELSE RemovedScan(parts, i + 1)

RECURSIVE RemovedCount(_)
RemovedCount(lines) ==
    IF lines = <<>> THEN 0
    ELSE LET line == Head(lines)
             r == RemovedScan(SplitWS(line), 1)
         IN  IF Contains(line, REMOVED) /\ Contains(line, SECRETS) /\ r.found
             THEN r.n
             ELSE RemovedCount(Tail(lines))

CleanupErrorText(err) == IF err # <<>> THEN Strip(err) ELSE UNKNOWN_ERROR

\* cleanup_vault() after process.communicate
CleanupParse(code, out, err) ==
    IF code # 0
    THEN Raises("EasyKeyError", PFX_CLEANUP_FAILED, CleanupErrorText(err))
    ELSE Returns(RetInt(RemovedCount(SplitOn(out, "\n"))))

\* what the call returns or raises once the child has exited
Translate(o, code, out, err) ==
    IF o = "cleanup" THEN CleanupParse(code, out, err)
    ELSE IF RunFailed(code)
    THEN Raises("EasyKeyError", PFX_COMMAND_FAILED, RunErrorText(err))
    ELSE CASE o = "get" -> SecretParse(RunOutput(out))
           [] o = "set" -> VoidParse(RunOutput(out))
           [] o = "remove" -> VoidParse(RunOutput(out))
           [] o = "list" -> ListParse(RunOutput(out))
           [] o = "status" -> StatusParse(RunOutput(out))

-----------------------------------------------------------------------------
(* The environment: the caller's inputs, the filesystem, the external tool *)

Names == {<<"k1">>}
Values == SeqsUpTo({"v", " ", "\n"}, MaxValueLen)
Reasons == {PyNone, <<>>, <<"audit">>}

FsOnPath == [which |-> "/usr/bin/easykey", isfile |-> {2}, xok |-> {2}]
FsFallback == [which |-> NONE, isfile |-> {1, 3}, xok |-> {3}]
FsNowhere == [which |-> NONE, isfile |-> {1}, xok |-> {}]
SmallFs == {FsOnPath, FsFallback, FsNowhere}
AllFs == [which : {NONE, "/usr/bin/easykey"},
          isfile : SUBSET DOMAIN common_paths,
          xok : SUBSET DOMAIN common_paths]

NoChild == [proc |-> "none", pipes |-> "none", stdin |-> <<>>,
            bin |-> NONE, argv |-> <<>>]
NoSet == [n |-> PyNone, v |-> PyNone]

Response(c, o, e) == [rc |-> c, stdout |-> o, stderr |-> e]

Stderrs == {<<>>, <<"e">>, <<" ", "e", "\n">>, <<"\n">>}

\* a failing run of the tool: any non-zero status, anything on either stream
FailResponses ==
    {Response(c, o, e) : c \in {1, 2}, o \in {<<>>, <<"[", "]">>}, e \in Stderrs}

CountText(n) == IF n = 0 THEN <<"0">> ELSE <<"1">>

\* a successful run of the tool on the vault v
OkResponses(o, a, v) ==
    CASE o = "get" ->
           IF a[2] \in DOMAIN v
           THEN {Response(0, v[a[2]] \o nl, <<>>) : nl \in {<<>>, <<"\n">>}}
           ELSE {}
      [] o = "set" -> {Response(0, <<>>, <<>>)}
      [] o = "remove" -> IF a[2] \in DOMAIN v THEN {Response(0, <<>>, <<>>)}
                         ELSE {}
      [] o = "list" -> {Response(0, x, <<>>) : x \in {<<>>, <<"[", "]", "\n">>}}
      [] o = "status" ->
           {Response(0, SECRETS \o <<":", " ">> \o CountText(Cardinality(DOMAIN v))
                        \o <<"\n">> \o LAST_ACCESS \o <<":", " ", "-", "\n">>,
                     <<>>)}
      [] o = "cleanup" ->
           {Response(0, REMOVED \o <<" ">> \o CountText(Cardinality(DOMAIN v))
                        \o <<" ">> \o SECRETS \o <<".", "\n">>, <<>>),
            Response(0, <<>>, <<"w">>)}

\* the vault after the tool ran argument vector a and exited c
VaultAfter(v, a, c) ==
    IF c # 0 THEN v
    ELSE CASE a[1] = <<"set">> ->
                [n \in DOMAIN v \cup {a[2]} |-> IF n = a[2] THEN a[3] ELSE v[n]]
           [] a[1] = <<"remove">> -> [n \in DOMAIN v \ {a[2]} |-> v[n]]
           [] a[1] = <<"cleanup">> -> [n \in {} |-> <<>>]
           [] OTHER -> v

-----------------------------------------------------------------------------
(* The calls, step by step *)

Idle ==
    /\ pc = "idle"

\* entering a function that goes straight to _run_easykey_command
Begin(o, n, v, r, c, ts, a) ==
    /\ op' = o
    /\ name' = n
    /\ value' = v
    /\ reason' = r
    /\ confirm' = c
    /\ include_timestamps' = ts
    /\ args' = a
    /\ pc' = "locate"
    /\ outcome' = NoOutcome
    /\ UNCHANGED <<fs, vault, binary_path, located, child, rc, stdout, stderr,
                   lastSet>>

CallSecret ==
    /\ Idle
    /\ \E n \in Names, r \in Reasons :
        Begin("get", n, PyNone, r, FALSE, FALSE, SecretArgs(n, r))

CallSetSecret ==
    /\ Idle
    /\ \E n \in Names, v \in Values, r \in Reasons :
        Begin("set", n, v, r, FALSE, FALSE, SetSecretArgs(n, v, r))

CallRemoveSecret ==
    /\ Idle
    /\ \E n \in Names, r \in Reasons :
        Begin("remove", n, PyNone, r, FALSE, FALSE, RemoveSecretArgs(n, r))

CallListSecrets ==
    /\ Idle
    /\ \E ts \in BOOLEAN :
        Begin("list", PyNone, PyNone, PyNone, FALSE, ts, ListSecretsArgs(ts))

CallStatus ==
    /\ Idle
    /\ Begin("status", PyNone, PyNone, PyNone, FALSE, FALSE, StatusArgs)

\* CleanupProceeds with the confirmation check left out
CleanupProceedsUnchecked(c) == TRUE

\* cleanup_vault's first statement: does the call go on to the binary ?
CleanupProceeds(c) == c

CallCleanupVault ==
    /\ Idle
    /\ \E c \in BOOLEAN :
        /\ op' = "cleanup"
        /\ confirm' = c
        /\ args' = IF CleanupProceeds(c) THEN CleanupArgs ELSE <<>>
        /\ pc' = IF CleanupProceeds(c) THEN "locate" ELSE "done"
        /\ outcome' = IF CleanupProceeds(c) THEN NoOutcome
                      ELSE Raises("ValueError", MSG_CONFIRM, <<>>)
        /\ UNCHANGED <<fs, vault, name, value, reason, include_timestamps,
                       binary_path, located, child, rc, stdout, stderr,
                       lastSet>>

\* binary_path = _find_easykey_binary()
Locate ==
    /\ pc = "locate"
    /\ located' = TRUE
    /\ binary_path' = FindEasykeyBinary(fs)
    /\ IF FindEasykeyBinary(fs) = NONE
       THEN /\ pc' = "done"
            /\ outcome' = Raises("EasyKeyError", MSG_NOT_INSTALLED, <<>>)
       ELSE /\ pc' = "spawn"
            /\ UNCHANGED outcome
    /\ UNCHANGED <<fs, vault, op, name, value, reason, confirm,
                   include_timestamps, args, child, rc, stdout, stderr,
                   lastSet>>

\* what a failed spawn raises out of the call
SpawnError(e) ==
    IF e = "FileNotFoundError"
    THEN Raises("EasyKeyError", PFX_BINARY_NOT_FOUND, STR_FILE_NOT_FOUND)
    ELSE Raises(e, "", STR_OS_ERROR)

\* subprocess.run / subprocess.Popen start the child; a failed spawn leaves
\* no child and no pipe behind
Spawn ==
    /\ pc = "spawn"
    /\ \E how \in {"ok", "FileNotFoundError", "PermissionError"} :
         IF how = "ok"
         THEN /\ child' = [proc |-> "running", pipes |-> "open",
                            stdin |-> <<>>, bin |-> binary_path, argv |-> args]
              /\ pc' = IF op = "cleanup" THEN "communicate" ELSE "wait"
              /\ UNCHANGED outcome
         ELSE /\ child' = NoChild
              /\ pc' = "done"
              /\ outcome' = SpawnError(how)
    /\ UNCHANGED <<fs, vault, op, name, value, reason, confirm,
                   include_timestamps, args, binary_path, located, rc, stdout,
                   stderr, lastSet>>

\* the child after an exception left process.communicate: cleanup_vault has
\* no handler that waits for it or closes its pipes
AbandonedChild(ch) == ch

\* process.communicate(input="yes\n"), the write: BrokenPipeError is
\* swallowed by communicate, any other exception leaves the call
Communicate ==
    /\ pc = "communicate"
    /\ \E how \in {"ok", "BrokenPipeError", "OSError"} :
         CASE how = "ok" ->
                /\ child' = [child EXCEPT !.stdin = <<"yes", "\n">>]
                /\ pc' = "wait"
                /\ UNCHANGED outcome
           [] how = "BrokenPipeError" ->
                /\ pc' = "wait"
                /\ UNCHANGED <<child, outcome>>
           [] how = "OSError" ->
                /\ child' = AbandonedChild(child)
                /\ pc' = "done"
                /\ outcome' = Raises("OSError", "", STR_OS_ERROR)
    /\ UNCHANGED <<fs, vault, op, name, value, reason, confirm,
                   include_timestamps, args, binary_path, located, rc, stdout,
                   stderr, lastSet>>

\* the child exits with response r: both streams are read to their end, the
\* child is waited for and the pipes are closed
ChildExits(r) ==
    /\ pc = "wait"
    /\ rc' = r.rc
    /\ stdout' = r.stdout
    /\ stderr' = r.stderr
    /\ vault' = VaultAfter(vault, child.argv, r.rc)
    /\ lastSet' = IF r.rc # 0 \/ op \notin {"set", "remove", "cleanup"}
                  THEN lastSet
                  ELSE IF op = "set" THEN [n |-> name, v |-> value]
                  ELSE NoSet
    /\ child' = [child EXCEPT !.proc = "reaped", !.pipes = "closed"]
    /\ pc' = "parse"
    /\ UNCHANGED <<fs, op, name, value, reason, confirm, include_timestamps,
                   args, binary_path, located, outcome>>

ToolExit ==
    /\ pc = "wait"
    /\ \E r \in FailResponses \cup OkResponses(op, child.argv, vault) :
          ChildExits(r)

\* the rest of the function: the captured result becomes a value or an error
Parse ==
    /\ pc = "parse"
    /\ outcome' = Translate(op, rc, stdout, stderr)
    /\ pc' = "done"
    /\ UNCHANGED <<fs, vault, op, name, value, reason, confirm,
                   include_timestamps, args, binary_path, located, child, rc,
                   stdout, stderr, lastSet>>

\* the call is over; nothing of it is kept
Finish ==
    /\ pc = "done"
    /\ pc' = "idle"
    /\ op' = NONE
    /\ name' = PyNone
    /\ value' = PyNone
    /\ reason' = PyNone
    /\ confirm' = FALSE
    /\ include_timestamps' = FALSE
    /\ args' = <<>>
    /\ binary_path' = NONE
    /\ located' = FALSE
    /\ child' = NoChild
    /\ rc' = 0
    /\ stdout' = <<>>
    /\ stderr' = <<>>
    /\ outcome' = NoOutcome
    /\ UNCHANGED <<fs, vault, lastSet>>

InitCall ==
    /\ vault = [n \in {} |-> <<>>]
    /\ pc = "idle"
    /\ op = NONE
    /\ name = PyNone
    /\ value = PyNone
    /\ reason = PyNone
    /\ confirm = FALSE
    /\ include_timestamps = FALSE
    /\ args = <<>>
    /\ binary_path = NONE
    /\ located = FALSE
    /\ child = NoChild
    /\ rc = 0
    /\ stdout = <<>>
    /\ stderr = <<>>
    /\ outcome = NoOutcome
    /\ lastSet = NoSet

Init ==
    /\ fs \in SmallFs
    /\ InitCall

Next ==
    \/ CallSecret
    \/ CallSetSecret
    \/ CallRemoveSecret
    \/ CallListSecrets
    \/ CallStatus
    \/ CallCleanupVault
    \/ Locate
    \/ Spawn
    \/ Communicate
    \/ ToolExit
    \/ Parse
    \/ Finish

Spec == Init /\ [][Next]_vars

-----------------------------------------------------------------------------
(* Narrower specifications: one function, a wider range of tool output *)

JsonAtoms == {"[", "]", "{", "}", ",", "1", " ", "x"}
ListStdouts == SeqsUpTo(JsonAtoms, MaxJsonLen)

StatusKeys == {SECRETS, LAST_ACCESS, <<"version">>}
StatusVals == {<<"3">>, <<"-">>, <<"x">>, <<"0", "1", ":", "0", "2">>, <<>>}
StatusLines ==
    {k \o <<":", " ">> \o v : k \in StatusKeys, v \in StatusVals}
      \cup {<<" ">> \o k \o <<" ", ":">> \o v \o <<"\t">> :
               k \in StatusKeys, v \in StatusVals}
      \cup {<<>>, SECRETS \o <<" ", "3">>}
StatusStdouts ==
    {Join(ls, <<"\n">>) : ls \in SeqsUpTo(StatusLines, MaxStatusLines)}

CleanupSegs == {REMOVED, SECRETS, <<"5">>, <<"x">>, <<"\n">>, REMOVED \o <<":">>}
CleanupStdouts ==
    {Join(segs, <<" ">>) : segs \in SeqsUpTo(CleanupSegs, MaxCleanupSegs)}

ListExit ==
    /\ pc = "wait"
    /\ op = "list"
    /\ \E o \in ListStdouts : ChildExits(Response(0, o, <<>>))

StatusExit ==
    /\ pc = "wait"
    /\ op = "status"
    /\ \E o \in StatusStdouts : ChildExits(Response(0, o, <<>>))

CleanupExit ==
    /\ pc = "wait"
    /\ op = "cleanup"
    /\ \E o \in CleanupStdouts : ChildExits(Response(0, o, <<>>))

InitOnPath ==
    /\ fs = FsOnPath
    /\ InitCall

InitLocate ==
    /\ fs \in AllFs
    /\ InitCall

NextList ==
    \/ CallListSecrets
    \/ Locate
    \/ Spawn
    \/ ToolExit
    \/ ListExit
    \/ Parse
    \/ Finish

NextStatus ==
    \/ CallStatus
    \/ Locate
    \/ Spawn
    \/ ToolExit
    \/ StatusExit
    \/ Parse
    \/ Finish

NextCleanup ==
    \/ CallCleanupVault
    \/ Locate
    \/ Spawn
    \/ Communicate
    \/ ToolExit
    \/ CleanupExit
    \/ Parse
    \/ Finish

NextLocate ==
    \/ CallStatus
    \/ CallCleanupVault
    \/ Locate
    \/ Spawn
    \/ Communicate
    \/ ToolExit
    \/ Parse
    \/ Finish

SpecList == InitOnPath /\ [][NextList]_vars
SpecStatus == InitOnPath /\ [][NextStatus]_vars
SpecCleanup == InitOnPath /\ [][NextCleanup]_vars
SpecLocate == InitLocate /\ [][NextLocate]_vars

-----------------------------------------------------------------------------
(* The error kinds of the specification, read off what the code raises *)

ErrorKind(o) ==
    IF o.kind # "raise" THEN "none"
    ELSE IF o.exc = "EasyKeyError"
              /\ o.prefix \in {MSG_NOT_INSTALLED, PFX_BINARY_NOT_FOUND}
    THEN "BinaryNotFound"
    ELSE IF o.exc = "EasyKeyError"
              /\ o.prefix \in {PFX_COMMAND_FAILED, PFX_CLEANUP_FAILED}
    THEN "CommandFailed"
    ELSE IF o.exc = "EasyKeyError" /\ o.prefix = PFX_PARSE_FAILED
    THEN "OutputParseError"
    ELSE IF o.exc = "ValueError" /\ o.prefix = MSG_CONFIRM
    THEN "ConfirmationRequired"
    ELSE "other"

\* the child has exited and its status has been collected
Exited == child.proc = "reaped"

\* the message used when the error stream is empty
FallbackText == IF op = "cleanup" THEN UNKNOWN_ERROR ELSE STR_CALLED_PROCESS_ERROR

-----------------------------------------------------------------------------
(* Claims *)

(* C1: a cleanup call whose confirmation flag is not affirmative fails with
   ConfirmationRequired, and no step of it locates the binary, spawns a
   subprocess or writes to a child's stdin, whatever the state of the binary
   and of the vault. *)
C1_UnconfirmedCleanupIsLocal ==
    (op = "cleanup" /\ ~confirm) =>
        /\ pc = "done"
        /\ ErrorKind(outcome) = "ConfirmationRequired"
        /\ ~located
        /\ binary_path = NONE
        /\ child = NoChild

C1_Witness ==
    /\ op = "cleanup" /\ ~confirm /\ pc = "done"
    /\ ErrorKind(outcome) = "ConfirmationRequired"
    /\ fs = FsOnPath
    /\ DOMAIN vault # {}

(* C2, as claimed: after a non-zero exit of any operation the call raises
   CommandFailed carrying the captured error stream verbatim, or the fallback
   message when the error stream is empty, whatever was written to stdout. *)
C2_NonZeroExitCarriesStderrVerbatim ==
    (pc = "done" /\ Exited /\ rc # 0) =>
        /\ ErrorKind(outcome) = "CommandFailed"
        /\ outcome.text = IF stderr = <<>> THEN FallbackText ELSE stderr

(* C2, amended: after a non-zero exit of any operation the call raises
   CommandFailed and never returns a value; the error carries the captured
   error stream with its leading and trailing whitespace removed, or the
   fallback message when the captured error stream is empty, whatever was
   written to stdout. *)
C2_NonZeroExitCarriesStrippedStderr ==
    (pc = "done" /\ Exited /\ rc # 0) =>
        /\ outcome.kind = "raise"
        /\ ErrorKind(outcome) = "CommandFailed"
        /\ outcome.text = IF stderr = <<>> THEN FallbackText ELSE Strip(stderr)

C2_Witness ==
    /\ pc = "done" /\ Exited /\ rc # 0
    /\ op = "get"
    /\ stdout # <<>>
    /\ stderr = <<" ", "e", "\n">>
    /\ ErrorKind(outcome) = "CommandFailed"
    /\ outcome.text = <<"e">>

\* get returned, and the latest vault operation to succeed on its name was a set
RoundTrip ==
    /\ pc = "done" /\ op = "get" /\ outcome.kind = "return"
    /\ lastSet # NoSet /\ lastSet.n = name

(* C3, as claimed: a successful set(name, value) followed by get(name), with
   no other vault operation in between and the tool echoing the stored
   value, returns exactly value, also for values with leading or trailing
   whitespace or newlines. *)
C3_RoundTripExact ==
    RoundTrip => outcome.val = RetStr(lastSet.v)

(* C3, amended: a successful set(name, value) followed by get(name), with no
   other vault operation in between and the tool echoing the stored value,
   returns value with its leading and trailing whitespace removed; it is
   exactly value when value neither starts nor ends with whitespace. *)
C3_RoundTripStripped ==
    RoundTrip =>
        /\ outcome.val = RetStr(Strip(lastSet.v))
        /\ (Strip(lastSet.v) = lastSet.v => outcome.val = RetStr(lastSet.v))

C3_Witness ==
    /\ RoundTrip
    /\ lastSet.v = <<" ", "v">>
    /\ stdout = <<" ", "v", "\n">>
    /\ outcome.val = RetStr(<<"v">>)

(* C8: on every exit path of a confirmed cleanup (success, non-zero exit,
   spawn failure, an exception while writing the confirmation to the child's
   stdin) the child has been waited for and its pipes are closed when the
   call returns or raises. *)
C8_CleanupReleasesChild ==
    (pc = "done" /\ op = "cleanup" /\ confirm) =>
        /\ child.proc \in {"none", "reaped"}
        /\ child.pipes \in {"none", "closed"}

\* the argument vector the binary was started with, without the reason
BaseArgs ==
    CASE op = "get" -> << <<"get">>, name, <<"--quiet">> >>
      [] op = "set" -> << <<"set">>, name, value >>
      [] op = "remove" -> << <<"remove">>, name >>

Started == op \in {"get", "set", "remove"} /\ child.proc # "none"

(* C9, as claimed: get, set and remove pass exactly `get <name> --quiet`,
   `set <name> <value>` or `remove <name>`, followed by `--reason <text>` if
   and only if the caller supplied a reason, the empty string included. *)
C9_ReasonPassedWheneverSupplied ==
    Started =>
        child.argv = BaseArgs \o (IF reason # PyNone
                                  THEN << <<"--reason">>, reason >> ELSE <<>>)

(* C9, amended: get, set and remove pass exactly `get <name> --quiet`,
   `set <name> <value>` or `remove <name>`, followed by `--reason <text>` if
   and only if the caller supplied a non-empty reason; an empty reason is
   treated like no reason and adds no argument. *)
C9_ReasonPassedWhenNonEmpty ==
    Started =>
        child.argv = BaseArgs \o (IF reason # PyNone /\ reason # <<>>
                                  THEN << <<"--reason">>, reason >> ELSE <<>>)

C9_Witness ==
    /\ Started
    /\ op = "set"
    /\ reason = <<"audit">>
    /\ child.argv = << <<"set">>, name, value, <<"--reason">>, <<"audit">> >>

\* list's subprocess exited zero and left stdout as captured
ListExitedZero == pc = "done" /\ op = "list" /\ Exited /\ rc = 0

\* the text is a JSON array
IsJsonArray(s) == JsonLoads(s).ok /\ JsonLoads(s).val.t = "list"

(* C4: when the list subprocess exits zero with non-empty stdout that is not
   parseable as the expected JSON array, list fails with OutputParseError, a
   kind the caller can tell apart from CommandFailed, and returns no value. *)
C4_UnparseableListOutputIsParseError ==
    (ListExitedZero /\ stdout # <<>> /\ ~IsJsonArray(stdout)) =>
        ErrorKind(outcome) = "OutputParseError"

\* status's subprocess exited zero and left stdout as captured
StatusExitedZero == pc = "done" /\ op = "status" /\ Exited /\ rc = 0

StatusLinesOf(out) == SplitOn(out, "\n")
ColonLines(out) ==
    {i \in 1..Len(StatusLinesOf(out)) : FirstIndex(StatusLinesOf(out)[i], ":") # 0}
\* the text before the first colon of line i, and the text after it, trimmed
KeyOf(out, i) ==
    LET l == StatusLinesOf(out)[i] IN Strip(SubSeq(l, 1, FirstIndex(l, ":") - 1))
ValOf(out, i) ==
    LET l == StatusLinesOf(out)[i]
    IN  Strip(SubSeq(l, FirstIndex(l, ":") + 1, Len(l)))
IsIntegerText(s) == IntParse(s).ok
SecretsAreIntegers(out) ==
    \A i \in ColonLines(out) : KeyOf(out, i) = SECRETS => IsIntegerText(ValOf(out, i))

(* C5: when the status subprocess exits zero and the value of its `secrets`
   line is not parseable as an integer, status fails with the library's
   OutputParseError kind, the kind list raises for malformed JSON. *)
C5_BadSecretsCountIsParseError ==
    (StatusExitedZero /\ ~SecretsAreIntegers(stdout)) =>
        ErrorKind(outcome) = "OutputParseError"

\* the integer after the first "Removed" token of the line that has one
ClaimedLineCount(line) ==
    LET parts == SplitWS(line)
        hits == {i \in 1..(Len(parts) - 1) :
                    parts[i] = REMOVED /\ IsIntegerText(parts[i + 1])}
    IN  IF Contains(line, REMOVED) /\ Contains(line, SECRETS) /\ hits # {}
        THEN [found |-> TRUE,
              n |-> IntParse(parts[(CHOOSE i \in hits : \A j \in hits : i <= j) + 1]).v]
        ELSE [found |-> FALSE, n |-> 0]

ClaimedCount(out) ==
    LET lines == SplitOn(out, "\n")
        hits == {i \in 1..Len(lines) : ClaimedLineCount(lines[i]).found}
    IN  IF hits = {} THEN 0
        ELSE ClaimedLineCount(lines[CHOOSE i \in hits : \A j \in hits : i <= j]).n

(* C6: a confirmed cleanup that exits zero returns the integer token that
   follows the "Removed" marker on the first line holding both a "Removed"
   and a "secrets" marker with an integer in that position, also when an
   earlier "Removed" token of the line is followed by a non-integer; with no
   such line it returns 0. *)
C6_CleanupReturnsFirstRemovedCount ==
    (pc = "done" /\ op = "cleanup" /\ confirm /\ Exited /\ rc = 0) =>
        outcome = Returns(RetInt(ClaimedCount(stdout)))

\* the value the status mapping holds for key k with text v
StatusValue(k, v) ==
    IF k = SECRETS THEN VInt(IntParse(v).v)
    ELSE IF k = LAST_ACCESS /\ v = <<"-">> THEN VNone
    ELSE VStr(v)

(* C7: for every zero-exit status stdout whose `secrets` values are integers,
   the returned mapping holds exactly the keys of the lines with a colon (the
   trimmed text before the first colon), each mapped to the trimmed text
   after the first colon of the last line with that key: `secrets` as an
   integer, `last_access` as None exactly when it is "-", every other value
   verbatim (colons included); lines without a colon contribute nothing. *)
C7_StatusMappingIsExact ==
    (StatusExitedZero /\ SecretsAreIntegers(stdout)) =>
        /\ outcome.kind = "return"
        /\ outcome.val.t = "dict"
        /\ DOMAIN outcome.val.d = {KeyOf(stdout, i) : i \in ColonLines(stdout)}
        /\ \A i \in ColonLines(stdout) :
              (\A j \in ColonLines(stdout) :
                   j > i => KeyOf(stdout, j) # KeyOf(stdout, i))
              => outcome.val.d[KeyOf(stdout, i)]
                     = StatusValue(KeyOf(stdout, i), ValOf(stdout, i))

C7_Witness ==
    /\ StatusExitedZero
    /\ stdout = <<" ", "secrets", " ", ":", "3", "\t", "\n",
                  "last_access", ":", " ", "0", "1", ":", "0", "2">>
    /\ outcome.kind = "return"
    /\ outcome.val.d[SECRETS] = VInt(3)
    /\ outcome.val.d[LAST_ACCESS] = VStr(<<"0", "1", ":", "0", "2">>)

\* the fallback locations that exist as a file and are executable
UsableFallbacks == {i \in DOMAIN common_paths : i \in fs.isfile /\ i \in fs.xok}

(* C10: locate returns the search-path result whenever the search path holds
   the tool, also when fallback files exist; otherwise the first fallback
   location, in list order, that is a file and executable; it fails with
   BinaryNotFound exactly when the search-path lookup fails and no fallback
   location is an executable file.  A fallback that exists but is not
   executable is never returned. *)
C10_LocateOrder ==
    located =>
        /\ fs.which # NONE => binary_path = fs.which
        /\ (fs.which = NONE /\ UsableFallbacks # {}) =>
              \E i \in UsableFallbacks :
                  /\ binary_path = common_paths[i]
                  /\ \A j \in UsableFallbacks : i <= j
        /\ binary_path = NONE <=> (fs.which = NONE /\ UsableFallbacks = {})
        /\ binary_path = NONE =>
              (pc = "done" /\ ErrorKind(outcome) = "BinaryNotFound")
        /\ (binary_path # NONE /\ pc = "spawn") => outcome = NoOutcome
        /\ \A i \in DOMAIN common_paths :
              (fs.which = NONE /\ binary_path = common_paths[i]) =>
                  (i \in fs.isfile /\ i \in fs.xok)

C10_Witness ==
    /\ located
    /\ fs.which = NONE
    /\ fs.isfile = {1, 2, 3, 4}
    /\ fs.xok = {3, 4}
    /\ binary_path = common_paths[3]
    /\ pc = "spawn"

====
